---- MODULE Spec2Model ----
(***************************************************************************)
(* alloc-fun: fixed-arena allocators.                                      *)
(*   FreeListAlloc<SIZE>  (src/src/freelist.rs)  first-fit intrusive list  *)
(*   BumpAlloc<SIZE>      (src/src/bump.rs)      mutex-guarded bump        *)
(*                                                                         *)
(* Addresses are byte offsets from the first byte of the arena, which is   *)
(* taken to be aligned for ListNode (the assertion at freelist.rs:138      *)
(* checks the absolute address).  The address space is flat: an offset     *)
(* may lie past the arena, and then it names foreign memory.  A ListNode   *)
(* written there either lands, and then reads back as written (no other    *)
(* writer of that memory is modelled), or the write faults.                *)
(*                                                                         *)
(* Callers are valid: a dealloc passes a live block with the layout it was *)
(* allocated with, and layouts have a non-zero size (GlobalAlloc's         *)
(* contract).  Each free-list call is one step, FreeListAlloc holding its  *)
(* mutex for the whole call; a bump call is a call step, the lock, and the *)
(* statements of its critical section.                                     *)
(***************************************************************************)
EXTENDS Integers, Sequences, FiniteSets, TLC

\* ------------------------------------------------------------- bounds
\* calls made on the free-list instance in one behaviour
MaxOps == 6
\* calls made on the bump instance in one behaviour
MaxBumpOps == 4
\* threads sharing the bump instance
NThreads == 2

\* ---------------------------------------------------- program constants
\* mem::size_of::<ListNode>() on a 64-bit target: usize + Option<&mut ListNode>
NodeSize == 16
\* mem::align_of::<ListNode>() on a 64-bit target
NodeAlign == 8
\* ptr::null_mut(), and None of Option<&'static mut ListNode>
NULL == -1
\* the sentinel self.head, which lives in FreeListImpl and not in the arena
HEAD == -2
\* find_region's None
NotFound == -3

\* the values of the const generic SIZE the instances are built with
ArenaSizes == {0, 8, 16, 40, 320, 1024}

\* Layout::from_size_align(size, align) values the callers pass
Layouts ==
    { [size |-> 10, align |-> 4],
      [size |-> 4,  align |-> 4],
      [size |-> 24, align |-> 8],
      [size |-> 20, align |-> 16] }

\* the values of SIZE and the layouts of the bump instance's callers
BumpArenaSizes == {0, 16, 48}

BumpLayouts ==
    { [size |-> 10, align |-> 4],
      [size |-> 16, align |-> 8],
      [size |-> 20, align |-> 16] }

VARIABLES
    SIZE,        \* the const generic SIZE of both instances
    head,        \* FreeListImpl.head: [some, size, next]
    mem,         \* the ListNode records written so far, as they stand in memory: address -> [size, next]
    live,        \* free-list blocks handed out and not yet released: [addr, lay, id]
    fault,       \* "none", "panic" (an assertion failed, the mutex is poisoned), "segv"
    nOps,        \* free-list calls made so far
    lastOp,      \* the last free-list call and its result
    prevOp,      \* the call before it
    cycle,       \* whether the calls so far are alloc(L); dealloc(p, L) cycles of one L
    next,        \* BumpImpl.next
    allocations, \* BumpImpl.allocations
    lock,        \* BumpAlloc.details' mutex: 0 when free, else the holding thread
    pc,          \* each thread's position in its bump call
    arg,         \* each thread's argument: the layout (alloc) or the block (dealloc)
    loc,         \* each thread's locals inside its critical section
    blive,       \* bump blocks the callers hold: [addr, lay, id, by]
    nBump,       \* bump calls made so far
    blast,       \* the last bump critical section executed and its effect
    bprev        \* the critical section before it

flvars == <<head, mem, live, fault, nOps, lastOp, prevOp, cycle>>
bvars == <<next, allocations, lock, pc, arg, loc, blive, nBump, blast, bprev>>
vars == <<SIZE, flvars, bvars>>

Threads == 1..NThreads

Max(a, b) == IF a >= b THEN a ELSE b

\* Layout::pad_to_align().size(): size rounded up to a multiple of align
PadToAlign(size, align) == ((size + align - 1) \div align) * align

\* ---- free list ----

\* FreeListImpl::adjust_layout
\* adjust_layout leaving the size as requested
adjust_layout_raw(layout) ==
    [size |-> layout.size, align |-> Max(layout.align, NodeAlign)]

adjust_layout(layout) ==
    [size |-> Max(layout.size, NodeSize), align |-> Max(layout.align, NodeAlign)]

\* Self::adjust_layout(layout).pad_to_align().size()
alloc_size(layout) ==
    PadToAlign(adjust_layout(layout).size, adjust_layout(layout).align)

\* suitable_for without the exact fit: a node is taken only when a new node fits
\* in what is left
\* suitable_for without the condition on the excess
suitable_for_loose(node, size) == size <= node.size

suitable_for_strict(node, size) ==
    /\ size <= node.size
    /\ node.size - size >= NodeSize

\* ListNode::suitable_for
suitable_for(node, size) ==
    /\ size <= node.size
    /\ LET excess == node.size - size
       IN  excess = 0 \/ excess >= NodeSize

\* prev.next, where prev is the sentinel or a node in memory
NextOf(h, m, prev) == IF prev = HEAD THEN h.next ELSE m[prev].next

\* the loop of find_region: the node before the first suitable one
RECURSIVE FindPrev(_, _, _, _, _)
FindPrev(h, m, prev, size, fuel) ==
    LET region == NextOf(h, m, prev)
    IN  IF region = NULL \/ fuel = 0 THEN NotFound
        ELSE IF suitable_for(m[region], size) THEN prev
        ELSE FindPrev(h, m, region, size, fuel - 1)

\* find_region returning the node it found and leaving it linked
find_region_keep(h, m, size) ==
    LET prev == FindPrev(h, m, HEAD, size, Cardinality(DOMAIN m) + 1)
    IN  IF prev = NotFound THEN [ret |-> NULL, head |-> h, mem |-> m]
        ELSE [ret |-> NextOf(h, m, prev), head |-> h, mem |-> m]

\* find_region unlinking with prev.next = None: the nodes after the one found
\* are dropped with it
find_region_drop(h, m, size) ==
    LET prev == FindPrev(h, m, HEAD, size, Cardinality(DOMAIN m) + 1)
    IN  IF prev = NotFound THEN [ret |-> NULL, head |-> h, mem |-> m]
        ELSE LET region == NextOf(h, m, prev)
             IN  IF prev = HEAD
                 THEN [ret |-> region, head |-> [h EXCEPT !.next = NULL], mem |-> m]
                 ELSE [ret |-> region, head |-> h,
                       mem |-> [m EXCEPT ![prev].next = NULL]]

\* FreeListImpl::find_region: [ret, head, mem] after the unlink
\* find_region falling back to the first node when no node is eligible
find_region_fallback(h, m, size) ==
    LET prev == FindPrev(h, m, HEAD, size, Cardinality(DOMAIN m) + 1)
    IN  IF prev = NotFound
        THEN IF h.next = NULL THEN [ret |-> NULL, head |-> h, mem |-> m]
             ELSE [ret |-> h.next,
                   head |-> [h EXCEPT !.next = m[h.next].next],
                   mem |-> [m EXCEPT ![h.next].next = NULL]]
        ELSE LET region == NextOf(h, m, prev)
                 nxt == m[region].next
                 m1 == [m EXCEPT ![region].next = NULL]
             IN  IF prev = HEAD
                 THEN [ret |-> region, head |-> [h EXCEPT !.next = nxt], mem |-> m1]
                 ELSE [ret |-> region, head |-> h,
                       mem |-> [m1 EXCEPT ![prev].next = nxt]]

find_region(h, m, size) ==
    LET prev == FindPrev(h, m, HEAD, size, Cardinality(DOMAIN m) + 1)
    IN  IF prev = NotFound THEN [ret |-> NULL, head |-> h, mem |-> m]
        ELSE LET region == NextOf(h, m, prev)
                 nxt == m[region].next
                 m1 == [m EXCEPT ![region].next = NULL]
             IN  IF prev = HEAD
                 THEN [ret |-> region, head |-> [h EXCEPT !.next = nxt], mem |-> m1]
                 ELSE [ret |-> region, head |-> h,
                       mem |-> [m1 EXCEPT ![prev].next = nxt]]

\* the three assertions of add_free_region
FreeRegionAsserts(addr, size) ==
    /\ addr # NULL
    /\ addr % NodeAlign = 0
    /\ size >= NodeSize

\* add_free_region linking the node in behind the first node of a non-empty list
add_free_region_second(h, m, addr, size) ==
    IF h.next = NULL
    THEN [head |-> [h EXCEPT !.next = addr],
          mem  |-> [x \in DOMAIN m \cup {addr} |->
                      IF x = addr THEN [size |-> size, next |-> NULL] ELSE m[x]]]
    ELSE [head |-> h,
          mem  |-> [x \in DOMAIN m \cup {addr} |->
                      IF x = addr THEN [size |-> size, next |-> m[h.next].next]
                      ELSE IF x = h.next THEN [m[x] EXCEPT !.next = addr]
                      ELSE m[x]]]

\* add_free_region linking the node in with next = None: the old list is dropped
add_free_region_droptail(h, m, addr, size) ==
    [head |-> [h EXCEPT !.next = addr],
     mem  |-> [x \in DOMAIN m \cup {addr} |->
                 IF x = addr THEN [size |-> size, next |-> NULL] ELSE m[x]]]

\* FreeListImpl::add_free_region past its assertions: the node is written at
\* addr and linked in at the head
add_free_region(h, m, addr, size) ==
    [head |-> [h EXCEPT !.next = addr],
     mem  |-> [x \in DOMAIN m \cup {addr} |->
                 IF x = addr THEN [size |-> size, next |-> h.next] ELSE m[x]]]

\* node_ptr.write(node) stores NodeSize bytes at addr: inside the arena or not
InArenaWrite(addr, sz) == 0 <= addr /\ addr + NodeSize <= sz

\* the remainder placed at the start of the block it was cut from
alloc_end_start(alloc_start, size) == alloc_start

\* alloc_start.add(size), alloc_start being a *mut ListNode: the offset counts
\* ListNode elements, not bytes
alloc_end(alloc_start, size) == alloc_start + size * NodeSize

\* the nodes linked after the sentinel, in list order
RECURSIVE Walk(_, _, _)
Walk(m, cur, fuel) ==
    IF cur = NULL \/ fuel = 0 THEN <<>>
    ELSE <<cur>> \o Walk(m, m[cur].next, fuel - 1)

FreeList == IF head.some THEN Walk(mem, head.next, Cardinality(DOMAIN mem) + 1) ELSE <<>>

\* FreeListImpl::free_list_length
free_list_length == Len(FreeList)

RECURSIVE SumSizes(_, _)
SumSizes(m, s) ==
    IF s = <<>> THEN 0 ELSE m[Head(s)].size + SumSizes(m, Tail(s))

\* FreeListImpl::free_space
free_space == SumSizes(mem, FreeList)

NoOp == [kind |-> "none", size |-> 0, addr |-> NULL, ret |-> NULL, free |-> 0]

NoCycle == [phase |-> "fresh", lay |-> [size |-> 0, align |-> 1], n |-> 0]

\* the history of alloc(L); dealloc(p, L) cycles, after an alloc of lay returning ret
CycleAlloc(lay, ret) ==
    IF ret # NULL /\ (cycle.phase = "fresh" \/ (cycle.phase = "done" /\ cycle.lay = lay))
    THEN [phase |-> "held", lay |-> lay, n |-> cycle.n]
    ELSE [cycle EXCEPT !.phase = "broken"]

\* ... and after a dealloc with layout lay
CycleDealloc(lay) ==
    IF cycle.phase = "held" /\ cycle.lay = lay
    THEN [phase |-> "done", lay |-> lay, n |-> cycle.n + 1]
    ELSE [cycle EXCEPT !.phase = "broken"]

\* the state a call leaves when it faults: nothing but the fault is observable
Faulted(kind, h, m) ==
    /\ fault' = kind
    /\ head' = h
    /\ mem' = m
    /\ UNCHANGED <<live, lastOp, prevOp, cycle>>

\* FreeListAlloc::alloc with the lock taken, FreeListImpl::alloc
Alloc(layout) ==
    /\ fault = "none"
    /\ nOps < MaxOps
    /\ nOps' = nOps + 1
    /\ UNCHANGED <<SIZE, bvars>>
    /\ LET size == alloc_size(layout)
           h0 == [some |-> TRUE, size |-> 0, next |-> NULL]
           fresh == ~head.some
           init == add_free_region(h0, mem, 0, SIZE)
           h1 == IF fresh THEN init.head ELSE head
           m1 == IF fresh THEN init.mem ELSE mem
           found == find_region(h1, m1, size)
           node == found.ret
           excess == m1[node].size - size
           left == alloc_end(node, size)
           split == add_free_region(found.head, found.mem, left, excess)
           h2 == IF excess > 0 THEN split.head ELSE found.head
           m2 == IF excess > 0 THEN split.mem ELSE found.mem
           pre == IF fresh THEN SIZE ELSE free_space
       IN  IF fresh /\ ~FreeRegionAsserts(0, SIZE)
           THEN Faulted("panic", h0, mem)
           ELSE IF node = NULL
           THEN /\ head' = h1
                /\ mem' = m1
                /\ prevOp' = lastOp
                /\ lastOp' = [kind |-> "alloc", size |-> size, addr |-> NULL,
                              ret |-> NULL, free |-> pre]
                /\ cycle' = CycleAlloc(layout, NULL)
                /\ UNCHANGED <<live, fault>>
           ELSE IF excess > 0 /\ ~FreeRegionAsserts(left, excess)
           THEN Faulted("panic", found.head, found.mem)
           ELSE \E lands \in IF excess > 0 /\ ~InArenaWrite(left, SIZE)
                             THEN BOOLEAN ELSE {TRUE} :
                   IF ~lands
                   THEN Faulted("segv", found.head, found.mem)
                   ELSE /\ head' = h2
                        /\ mem' = m2
                        /\ live' = live \cup {[addr |-> node, lay |-> layout, id |-> nOps]}
                        /\ prevOp' = lastOp
                        /\ lastOp' = [kind |-> "alloc", size |-> size, addr |-> NULL,
                                      ret |-> node, free |-> pre]
                        /\ cycle' = CycleAlloc(layout, node)
                        /\ UNCHANGED fault

\* FreeListAlloc::alloc when lock() is Err: the mutex was poisoned by a panic
AllocPoisoned(layout) ==
    /\ fault = "panic"
    /\ nOps < MaxOps
    /\ nOps' = nOps + 1
    /\ prevOp' = lastOp
    /\ lastOp' = [kind |-> "alloc", size |-> alloc_size(layout), addr |-> NULL,
                  ret |-> NULL, free |-> 0]
    /\ cycle' = CycleAlloc(layout, NULL)
    /\ UNCHANGED <<SIZE, head, mem, live, fault, bvars>>

\* FreeListAlloc::dealloc with the lock taken, FreeListImpl::dealloc, of a live
\* block with the layout it was allocated with
Dealloc(b) ==
    /\ fault = "none"
    /\ nOps < MaxOps
    /\ b \in live
    /\ nOps' = nOps + 1
    /\ UNCHANGED <<SIZE, bvars>>
    /\ LET size == alloc_size(b.lay)
           added == add_free_region(head, mem, b.addr, size)
       IN  IF ~FreeRegionAsserts(b.addr, size)
           THEN Faulted("panic", head, mem)
           ELSE \E lands \in IF InArenaWrite(b.addr, SIZE) THEN {TRUE} ELSE BOOLEAN :
                   IF ~lands
                   THEN Faulted("segv", head, mem)
                   ELSE /\ head' = added.head
                        /\ mem' = added.mem
                        /\ live' = live \ {b}
                        /\ prevOp' = lastOp
                        /\ lastOp' = [kind |-> "dealloc", size |-> size, addr |-> b.addr,
                                      ret |-> NULL, free |-> free_space]
                        /\ cycle' = CycleDealloc(b.lay)
                        /\ UNCHANGED fault

FLInit ==
    /\ head = [some |-> FALSE, size |-> 0, next |-> NULL]
    /\ mem = [x \in {} |-> [size |-> 0, next |-> NULL]]
    /\ live = {}
    /\ fault = "none"
    /\ nOps = 0
    /\ lastOp = NoOp
    /\ prevOp = NoOp
    /\ cycle = NoCycle

\* ---- bump ----

BNoOp == [kind |-> "none", size |-> 0, addr |-> NULL, ret |-> NULL,
          next0 |-> 0, count0 |-> 0, next1 |-> 0, count1 |-> 0]

NoLoc == [start |-> 0, next0 |-> 0, count0 |-> 0]

\* a lock that excludes nobody
lock_free_always(l) == TRUE

\* self.details.lock() returns once no other thread holds the mutex
lock_free(l) == l = 0

\* the space check off by one: a request that fits exactly is refused
out_of_space_ge(nxt, size) == nxt + size >= SIZE

\* details.next + size > SIZE
out_of_space(nxt, size) == nxt + size > SIZE

\* dealloc without the reset of next
dealloc_next_never(nxt, count) == nxt

\* the reset done on every release
dealloc_next_always(nxt, count) == 0

\* if details.allocations == 0 { details.next = 0; }
dealloc_next(nxt, count) == IF count = 0 THEN 0 ELSE nxt

\* a thread calls BumpAlloc::alloc(layout)
BCallAlloc(t, layout) ==
    /\ pc[t] = "idle"
    /\ nBump < MaxBumpOps
    /\ nBump' = nBump + 1
    /\ pc' = [pc EXCEPT ![t] = "alloc_wait"]
    /\ arg' = [arg EXCEPT ![t] = layout]
    /\ UNCHANGED <<SIZE, flvars, next, allocations, lock, loc, blive, blast, bprev>>

\* a thread calls BumpAlloc::dealloc on a block it holds, with the block's layout
BCallDealloc(t, b) ==
    /\ pc[t] = "idle"
    /\ nBump < MaxBumpOps
    /\ b \in blive
    /\ nBump' = nBump + 1
    /\ pc' = [pc EXCEPT ![t] = "dealloc_wait"]
    /\ arg' = [arg EXCEPT ![t] = b]
    /\ blive' = blive \ {b}
    /\ UNCHANGED <<SIZE, flvars, next, allocations, lock, loc, blast, bprev>>

\* self.details.lock() in alloc and in dealloc
BLock(t) ==
    /\ pc[t] \in {"alloc_wait", "dealloc_wait"}
    /\ lock_free(lock)
    /\ lock' = t
    /\ pc' = [pc EXCEPT ![t] = IF pc[t] = "alloc_wait" THEN "alloc_cs" ELSE "dealloc_cs"]
    /\ UNCHANGED <<SIZE, flvars, next, allocations, arg, loc, blive, nBump, blast, bprev>>

\* alloc: the size, the space check and let start = details.next
BAllocCheck(t) ==
    /\ pc[t] = "alloc_cs"
    /\ LET size == PadToAlign(arg[t].size, arg[t].align)
       IN  IF out_of_space(next, size)
           THEN /\ pc' = [pc EXCEPT ![t] = "idle"]
                /\ lock' = 0
                /\ bprev' = blast
                /\ blast' = [kind |-> "alloc", size |-> size, addr |-> NULL, ret |-> NULL,
                             next0 |-> next, count0 |-> allocations,
                             next1 |-> next, count1 |-> allocations]
                /\ arg' = [arg EXCEPT ![t] = NULL]
                /\ UNCHANGED loc
           ELSE /\ pc' = [pc EXCEPT ![t] = "alloc_bump"]
                /\ loc' = [loc EXCEPT ![t] = [start |-> next, next0 |-> next,
                                              count0 |-> allocations]]
                /\ UNCHANGED <<lock, arg, blast, bprev>>
    /\ UNCHANGED <<SIZE, flvars, next, allocations, blive, nBump>>

\* alloc: details.next += size; details.allocations += 1; the pointer is
\* returned and the guard dropped
BAllocBump(t) ==
    /\ pc[t] = "alloc_bump"
    /\ LET size == PadToAlign(arg[t].size, arg[t].align)
       IN  /\ next' = next + size
           /\ allocations' = allocations + 1
           /\ blive' = blive \cup {[addr |-> loc[t].start, lay |-> arg[t], id |-> nBump, by |-> t]}
           /\ bprev' = blast
           /\ blast' = [kind |-> "alloc", size |-> size, addr |-> NULL, ret |-> loc[t].start,
                        next0 |-> loc[t].next0, count0 |-> loc[t].count0,
                        next1 |-> next', count1 |-> allocations']
    /\ pc' = [pc EXCEPT ![t] = "idle"]
    /\ lock' = 0
    /\ arg' = [arg EXCEPT ![t] = NULL]
    /\ loc' = [loc EXCEPT ![t] = NoLoc]
    /\ UNCHANGED <<SIZE, flvars, nBump>>

\* dealloc: details.allocations -= 1
BDeallocCount(t) ==
    /\ pc[t] = "dealloc_cs"
    /\ allocations' = allocations - 1
    /\ loc' = [loc EXCEPT ![t] = [start |-> 0, next0 |-> next, count0 |-> allocations]]
    /\ pc' = [pc EXCEPT ![t] = "dealloc_reset"]
    /\ UNCHANGED <<SIZE, flvars, next, lock, arg, blive, nBump, blast, bprev>>

\* dealloc: the reset of next when the count is zero, and the guard dropped
BDeallocReset(t) ==
    /\ pc[t] = "dealloc_reset"
    /\ next' = dealloc_next(next, allocations)
    /\ bprev' = blast
    /\ blast' = [kind |-> "dealloc", size |-> PadToAlign(arg[t].lay.size, arg[t].lay.align),
                 addr |-> arg[t].addr, ret |-> NULL,
                 next0 |-> loc[t].next0, count0 |-> loc[t].count0,
                 next1 |-> next', count1 |-> allocations]
    /\ pc' = [pc EXCEPT ![t] = "idle"]
    /\ lock' = 0
    /\ arg' = [arg EXCEPT ![t] = NULL]
    /\ loc' = [loc EXCEPT ![t] = NoLoc]
    /\ UNCHANGED <<SIZE, flvars, allocations, blive, nBump>>

BInit ==
    /\ next = 0
    /\ allocations = 0
    /\ lock = 0
    /\ pc = [t \in Threads |-> "idle"]
    /\ arg = [t \in Threads |-> NULL]
    /\ loc = [t \in Threads |-> NoLoc]
    /\ blive = {}
    /\ nBump = 0
    /\ blast = BNoOp
    /\ bprev = BNoOp

Init ==
    /\ SIZE \in ArenaSizes
    /\ FLInit
    /\ BInit

BumpInit ==
    /\ SIZE \in BumpArenaSizes
    /\ FLInit
    /\ BInit

Next ==
    \/ \E layout \in Layouts : Alloc(layout)
    \/ \E layout \in Layouts : AllocPoisoned(layout)
    \/ \E b \in live : Dealloc(b)

Spec == Init /\ [][Next]_vars

BumpNext ==
    \/ \E t \in Threads, layout \in BumpLayouts : BCallAlloc(t, layout)
    \/ \E t \in Threads, b \in blive : BCallDealloc(t, b)
    \/ \E t \in Threads : BLock(t)
    \/ \E t \in Threads : BAllocCheck(t)
    \/ \E t \in Threads : BAllocBump(t)
    \/ \E t \in Threads : BDeallocCount(t)
    \/ \E t \in Threads : BDeallocReset(t)

BumpSpec == BumpInit /\ [][BumpNext]_vars

\* requests with an alignment above the one every split address has
AlignLayouts ==
    { [size |-> 24,  align |-> 8],
      [size |-> 256, align |-> 256] }

AlignNext ==
    \/ \E layout \in AlignLayouts : Alloc(layout)
    \/ \E layout \in AlignLayouts : AllocPoisoned(layout)
    \/ \E b \in live : Dealloc(b)

AlignSpec == Init /\ [][AlignNext]_vars

\* ---- bump allocator, lock-free variant ----
\* next and allocations are two atomic words and lock is not used.  A call is
\* a sequence of atomic steps: alloc loads next, checks the room, reserves by
\* compare-and-swap (retrying from the load when next has changed) and then
\* adds one to the count; release subtracts one from the count and, having
\* found the count at one, stores 0 in next.

\* a compare-and-swap that stores whatever the word holds
cas_succeeds_always(current, expected) == TRUE

\* the compare-and-swap on next succeeds when next still holds the value read
cas_succeeds(current, expected) == current = expected

LfCallAlloc(t, layout) ==
    /\ pc[t] = "idle"
    /\ nBump < MaxBumpOps
    /\ nBump' = nBump + 1
    /\ pc' = [pc EXCEPT ![t] = "lf_load"]
    /\ arg' = [arg EXCEPT ![t] = layout]
    /\ UNCHANGED <<SIZE, flvars, next, allocations, lock, loc, blive, blast, bprev>>

\* the load of next and the check for room; no room returns null
LfLoad(t) ==
    /\ pc[t] = "lf_load"
    /\ LET size == PadToAlign(arg[t].size, arg[t].align)
       IN  IF out_of_space(next, size)
           THEN /\ pc' = [pc EXCEPT ![t] = "idle"]
                /\ arg' = [arg EXCEPT ![t] = NULL]
                /\ loc' = [loc EXCEPT ![t] = NoLoc]
                /\ bprev' = blast
                /\ blast' = [kind |-> "alloc", size |-> size, addr |-> NULL, ret |-> NULL,
                             next0 |-> next, count0 |-> allocations,
                             next1 |-> next, count1 |-> allocations]
           ELSE /\ pc' = [pc EXCEPT ![t] = "lf_cas"]
                /\ loc' = [loc EXCEPT ![t] = [start |-> next, next0 |-> next,
                                              count0 |-> allocations]]
                /\ UNCHANGED <<arg, blast, bprev>>
    /\ UNCHANGED <<SIZE, flvars, next, allocations, lock, blive, nBump>>

\* the compare-and-swap: the bytes are reserved, or the loop starts over
LfCas(t) ==
    /\ pc[t] = "lf_cas"
    /\ IF cas_succeeds(next, loc[t].next0)
       THEN /\ next' = loc[t].next0 + PadToAlign(arg[t].size, arg[t].align)
            /\ pc' = [pc EXCEPT ![t] = "lf_count"]
            /\ UNCHANGED loc
       ELSE /\ pc' = [pc EXCEPT ![t] = "lf_load"]
            /\ loc' = [loc EXCEPT ![t] = NoLoc]
            /\ UNCHANGED next
    /\ UNCHANGED <<SIZE, flvars, allocations, lock, arg, blive, nBump, blast, bprev>>

\* the count goes up by one and the reserved block is returned
LfCount(t) ==
    /\ pc[t] = "lf_count"
    /\ allocations' = allocations + 1
    /\ blive' = blive \cup {[addr |-> loc[t].start, lay |-> arg[t], id |-> nBump, by |-> t]}
    /\ bprev' = blast
    /\ blast' = [kind |-> "alloc", size |-> PadToAlign(arg[t].size, arg[t].align),
                 addr |-> NULL, ret |-> loc[t].start,
                 next0 |-> loc[t].next0, count0 |-> allocations,
                 next1 |-> next, count1 |-> allocations']
    /\ pc' = [pc EXCEPT ![t] = "idle"]
    /\ arg' = [arg EXCEPT ![t] = NULL]
    /\ loc' = [loc EXCEPT ![t] = NoLoc]
    /\ UNCHANGED <<SIZE, flvars, next, lock, nBump>>

LfCallRelease(t, b) ==
    /\ pc[t] = "idle"
    /\ nBump < MaxBumpOps
    /\ nBump' = nBump + 1
    /\ pc' = [pc EXCEPT ![t] = "lf_sub"]
    /\ arg' = [arg EXCEPT ![t] = b]
    /\ blive' = blive \ {b}
    /\ UNCHANGED <<SIZE, flvars, next, allocations, lock, loc, blast, bprev>>

\* the count goes down by one; a count found above one ends the call
LfSub(t) ==
    /\ pc[t] = "lf_sub"
    /\ allocations' = allocations - 1
    /\ IF allocations = 1
       THEN /\ pc' = [pc EXCEPT ![t] = "lf_reset"]
            /\ loc' = [loc EXCEPT ![t] = [start |-> 0, next0 |-> next,
                                          count0 |-> allocations]]
            /\ UNCHANGED <<arg, blast, bprev>>
       ELSE /\ pc' = [pc EXCEPT ![t] = "idle"]
            /\ arg' = [arg EXCEPT ![t] = NULL]
            /\ loc' = [loc EXCEPT ![t] = NoLoc]
            /\ bprev' = blast
            /\ blast' = [kind |-> "dealloc",
                         size |-> PadToAlign(arg[t].lay.size, arg[t].lay.align),
                         addr |-> arg[t].addr, ret |-> NULL,
                         next0 |-> next, count0 |-> allocations,
                         next1 |-> next, count1 |-> allocations']
    /\ UNCHANGED <<SIZE, flvars, next, lock, blive, nBump>>

\* the release that found the count at one stores 0 in next
LfReset(t) ==
    /\ pc[t] = "lf_reset"
    /\ next' = 0
    /\ bprev' = blast
    /\ blast' = [kind |-> "dealloc",
                 size |-> PadToAlign(arg[t].lay.size, arg[t].lay.align),
                 addr |-> arg[t].addr, ret |-> NULL,
                 next0 |-> loc[t].next0, count0 |-> loc[t].count0,
                 next1 |-> 0, count1 |-> loc[t].count0 - 1]
    /\ pc' = [pc EXCEPT ![t] = "idle"]
    /\ arg' = [arg EXCEPT ![t] = NULL]
    /\ loc' = [loc EXCEPT ![t] = NoLoc]
    /\ UNCHANGED <<SIZE, flvars, allocations, lock, blive, nBump>>

\* the requests made of the lock-free variant
LfLayouts ==
    { [size |-> 10, align |-> 4] }

LfNext ==
    \/ \E t \in Threads, layout \in LfLayouts : LfCallAlloc(t, layout)
    \/ \E t \in Threads, b \in blive : LfCallRelease(t, b)
    \/ \E t \in Threads : LfLoad(t)
    \/ \E t \in Threads : LfCas(t)
    \/ \E t \in Threads : LfCount(t)
    \/ \E t \in Threads : LfSub(t)
    \/ \E t \in Threads : LfReset(t)

LfSpec == BumpInit /\ [][LfNext]_vars

\* ---- properties of the free-list allocator (Spec) ----

\* the bytes of a free-list block: [addr, addr + effective size)
BlockEnd(b) == b.addr + alloc_size(b.lay)

Disjoint(a1, e1, a2, e2) == e1 <= a2 \/ e2 <= a1

\* the sum of the effective sizes of a set of blocks
RECURSIVE LiveBytes(_)
LiveBytes(bs) ==
    IF bs = {} THEN 0
    ELSE LET b == CHOOSE x \in bs : TRUE
         IN  alloc_size(b.lay) + LiveBytes(bs \ {b})

\* a cycle of alloc(L); dealloc(p, L) calls has just returned
CycleDone == cycle.phase = "done" /\ fault = "none"

\* C1: every free-list node and every block handed out lies entirely inside
\* the arena: 0 <= o and o + n <= SIZE for its offset o and size n, the
\* leftover node that alloc creates at alloc_start.add(size) included.
C1_InsideArena ==
    /\ \A i \in 1..Len(FreeList) :
          0 <= FreeList[i] /\ FreeList[i] + mem[FreeList[i]].size <= SIZE
    /\ \A b \in live : 0 <= b.addr /\ BlockEnd(b) <= SIZE

\* C2: the byte ranges [p, p + effective size) of the live blocks are pairwise
\* non-overlapping, and two successful allocations in a row return distinct
\* addresses.
C2_LiveDisjoint ==
    /\ \A b1, b2 \in live :
          b1 # b2 => Disjoint(b1.addr, BlockEnd(b1), b2.addr, BlockEnd(b2))
    /\ (lastOp.kind = "alloc" /\ prevOp.kind = "alloc"
          /\ lastOp.ret # NULL /\ prevOp.ret # NULL) => lastOp.ret # prevOp.ret

\* C2's case: a released block has been handed out again while another block is live
C2_Witness ==
    /\ Cardinality(live) >= 2
    /\ lastOp.kind = "alloc" /\ prevOp.kind = "dealloc"
    /\ lastOp.ret = prevOp.addr

\* C4: an allocate call never faults: one the arena cannot satisfy returns
\* null, for every SIZE (0 and sizes below the node size included) and on the
\* first call, which initializes the list.
C4_AllocNeverPanics == fault # "panic"

\* C7: release(p, L) of a live block followed at once by allocate(L') with the
\* effective size of L returns p.
C7_ReleaseThenAllocSame ==
    (lastOp.kind = "alloc" /\ prevOp.kind = "dealloc" /\ lastOp.size = prevOp.size)
        => lastOp.ret = prevOp.addr

\* C7's case: the released node is reused although other nodes are on the list
C7_Witness ==
    /\ lastOp.kind = "alloc" /\ prevOp.kind = "dealloc" /\ lastOp.size = prevOp.size
    /\ lastOp.ret = prevOp.addr
    /\ free_list_length >= 2

\* C8: once the list is initialized, free_space plus the effective sizes of the
\* live blocks is SIZE; a successful allocate of effective size s lowers
\* free_space by s, a failed one leaves it, a release raises it by s.
C8_SpaceConserved ==
    (head.some /\ fault = "none") =>
        /\ free_space + LiveBytes(live) = SIZE
        /\ LiveBytes(live) <= SIZE
        /\ (lastOp.kind = "alloc" /\ lastOp.ret # NULL) => free_space = lastOp.free - lastOp.size
        /\ (lastOp.kind = "alloc" /\ lastOp.ret = NULL) => free_space = lastOp.free
        /\ lastOp.kind = "dealloc" => free_space = lastOp.free + lastOp.size

\* C8's case: an allocation that skipped a node and split a later one
C8_Witness ==
    /\ head.some /\ fault = "none"
    /\ lastOp.kind = "alloc" /\ lastOp.ret # NULL
    /\ prevOp.kind = "dealloc" /\ lastOp.ret # prevOp.addr
    /\ free_list_length >= 2
    /\ live # {}

\* C9 as stated: after every alloc(L); dealloc(p, L) cycle on a fresh instance
\* free_list_length is 2.
C9_LengthTwo == CycleDone => free_list_length = 2

\* C9 amended: after every such cycle free_list_length is 2 when the effective
\* size of L is below SIZE, and 1 when it is SIZE (the block is the whole
\* arena and nothing is left over); it does not grow with the cycles.
C9_LengthStable ==
    CycleDone =>
        free_list_length = (IF alloc_size(cycle.lay) = SIZE THEN 1 ELSE 2)

\* C9's case: a second cycle has ended
C9_Witness == CycleDone /\ cycle.n >= 2 /\ free_list_length = 2

\* C10 as stated: after every cycle the list is the sentinel plus exactly one
\* free region.
C10_OneRegion == CycleDone => free_list_length = 1

\* C10 amended: after every cycle the list is the sentinel, then the released
\* block (offset 0, the effective size s of L), then, when s < SIZE, one node
\* for the rest of the arena (size SIZE - s): two free regions, never merged.
C10_TwoRegions ==
    CycleDone =>
        LET s == alloc_size(cycle.lay)
        IN  /\ free_list_length >= 1
            /\ FreeList[1] = 0
            /\ mem[0].size = s
            /\ IF s = SIZE THEN free_list_length = 1
               ELSE /\ free_list_length = 2
                    /\ mem[FreeList[2]].size = SIZE - s

\* C10's case: a cycle has ended with the block and the rest of the arena on the list
C10_Witness ==
    /\ CycleDone
    /\ free_list_length = 2
    /\ mem[FreeList[2]].size = SIZE - alloc_size(cycle.lay)

\* ---- properties of the bump allocator (BumpSpec) ----

BumpSize(lay) == PadToAlign(lay.size, lay.align)

\* the blocks handed out whose release has not yet decremented the count
BOutstanding ==
    blive \cup {arg[t] : t \in {u \in Threads : pc[u] \in {"dealloc_wait", "dealloc_cs"}}}

\* C3: under every interleaving the byte ranges [start, start + padded size)
\* of the live blocks are pairwise non-overlapping, so threads allocating the
\* same size concurrently receive distinct addresses.
C3_BumpDisjoint ==
    \A b1, b2 \in BOutstanding :
        b1 # b2 => Disjoint(b1.addr, b1.addr + BumpSize(b1.lay),
                            b2.addr, b2.addr + BumpSize(b2.lay))

\* C3's case: two threads hold blocks of one size
C3_Witness ==
    \E b1, b2 \in blive :
        b1.by # b2.by /\ b1.lay = b2.lay /\ b1.addr # b2.addr

\* C5: alloc fails exactly when next + padded size > SIZE and then leaves next
\* and the count alone; on success the block is [old next, old next + padded
\* size) inside the arena, next advances by the padded size and the count by
\* one; 0 <= next <= SIZE always, and with SIZE = 0 every request fails.
C5_BumpAlloc ==
    /\ 0 <= next /\ next <= SIZE
    /\ blast.kind = "alloc" =>
          /\ (blast.ret = NULL) <=> (blast.next0 + blast.size > SIZE)
          /\ blast.ret = NULL => blast.next1 = blast.next0 /\ blast.count1 = blast.count0
          /\ blast.ret # NULL =>
                /\ blast.ret = blast.next0
                /\ 0 <= blast.ret /\ blast.ret + blast.size <= SIZE
                /\ blast.next1 = blast.next0 + blast.size
                /\ blast.count1 = blast.count0 + 1
          /\ lock = 0 => next = blast.next1 /\ allocations = blast.count1
          /\ SIZE = 0 => blast.ret = NULL

\* C5's case: a request refused after others were served
C5_Witness ==
    /\ blast.kind = "alloc" /\ blast.ret = NULL
    /\ blast.next0 > 0 /\ blast.next0 + blast.size > SIZE
    /\ bprev.kind = "alloc" /\ bprev.ret # NULL

\* C6: a release changes next exactly when it drops the count to zero, and
\* then to 0, so that the next successful alloc returns the arena start; a
\* release that leaves the count above zero leaves next, and the next alloc
\* returns an address other than the released block's.
C6_BumpRelease ==
    /\ blast.kind = "dealloc" =>
          /\ (blast.next1 # blast.next0) <=> (blast.count1 = 0)
          /\ blast.count1 = blast.count0 - 1
          /\ blast.count1 > 0 => blast.next1 = blast.next0
          /\ blast.count1 = 0 => blast.next1 = 0
          /\ lock = 0 => next = blast.next1 /\ allocations = blast.count1
    /\ (blast.kind = "alloc" /\ bprev.kind = "dealloc") =>
          /\ bprev.count0 > 1 => blast.ret # bprev.addr /\ blast.next0 = bprev.next0
          /\ bprev.count0 = 1 =>
                /\ blast.next0 = 0
                /\ blast.ret # NULL => blast.ret = 0
                /\ (blast.ret = NULL) <=> (blast.size > SIZE)

\* C6's case: of two live blocks one is released and the next alloc gets new space
C6_Witness ==
    /\ blast.kind = "alloc" /\ bprev.kind = "dealloc"
    /\ bprev.count0 = 2
    /\ blast.ret # NULL /\ blast.ret # bprev.addr

\* ---- search, split and lifecycle of the free-list allocator (Spec) ----

\* a node of size n can serve a request of effective size s
Eligible(n, s) == n >= s /\ (n - s = 0 \/ n - s >= NodeSize)

\* the sizes of the nodes a call's search walks, in list order: the list as it
\* stands, or the single node of the whole arena when the call initializes
SearchSizes ==
    IF head.some THEN [i \in 1..Len(FreeList) |-> mem[FreeList[i]].size]
    ELSE <<SIZE>>

\* a call that ran to its return
AllocStep == fault = "none" /\ fault' = "none" /\ nOps' = nOps + 1 /\ lastOp'.kind = "alloc"
DeallocStep == fault = "none" /\ fault' = "none" /\ nOps' = nOps + 1 /\ lastOp'.kind = "dealloc"

\* C11: allocate fails exactly when no single free node is eligible for the
\* effective size, however large the sum of the free sizes is, and a failing
\* call leaves the list as it was; release links the released region in as one
\* more node of exactly the released size and changes no existing node
C11_NoCoalescing ==
    [][ /\ AllocStep =>
             /\ (lastOp'.ret = NULL) <=>
                    ~ \E i \in DOMAIN SearchSizes : Eligible(SearchSizes[i], lastOp'.size)
             /\ (lastOp'.ret = NULL /\ head.some) =>
                    /\ FreeList' = FreeList
                    /\ \A i \in 1..Len(FreeList) :
                           mem'[FreeList[i]].size = mem[FreeList[i]].size
        /\ DeallocStep =>
             /\ FreeList' = <<lastOp'.addr>> \o FreeList
             /\ mem'[lastOp'.addr].size = lastOp'.size
             /\ \A i \in 1..Len(FreeList) :
                    mem'[FreeList[i]].size = mem[FreeList[i]].size
      ]_vars

\* a small block was allocated and released, and the next request, larger than
\* every free node but not larger than the free total, has just failed
C11_Witness ==
    /\ fault = "none"
    /\ lastOp.kind = "alloc" /\ lastOp.ret = NULL
    /\ prevOp.kind = "dealloc"
    /\ free_list_length = 2
    /\ \A i \in 1..Len(FreeList) : mem[FreeList[i]].size < lastOp.size
    /\ free_space >= lastOp.size

\* C12: every block handed out starts at an arena offset that is a multiple of
\* the effective alignment max(align, node alignment) of its request
C12_Aligned ==
    \A b \in live : b.addr % adjust_layout(b.lay).align = 0

\* ---- the counters of the bump allocator under contention (BumpSpec) ----

\* whenever the lock is not held the count is the number of blocks handed out
\* and not yet released, and next is 0 exactly when the count is
CountersAgree ==
    lock = 0 =>
        /\ allocations = Cardinality(BOutstanding)
        /\ (next = 0) <=> (allocations = 0)

\* the last two calls to return were one alloc and one dealloc, the first of
\* them entered its critical section with exactly one block outstanding, and
\* the dealloc released that block
DeallocRacedAlloc ==
    /\ lock = 0
    /\ \/ bprev.kind = "dealloc" /\ blast.kind = "alloc"
       \/ bprev.kind = "alloc" /\ blast.kind = "dealloc" /\ blast.addr # bprev.ret
    /\ bprev.count0 = 1

\* the alloc of that pair
RacedAlloc == IF blast.kind = "alloc" THEN blast ELSE bprev

\* C13 as stated: the counters agree whenever the lock is free, and a dealloc
\* of the only live block together with one alloc ends, in either lock order,
\* with count 1 and next non-zero
C13_RaceEndsWithOne ==
    /\ CountersAgree
    /\ DeallocRacedAlloc => allocations = 1 /\ next # 0

\* C13 with the alloc's outcome told apart: the counters agree whenever the
\* lock is free; the pair ends with count 1 and next non-zero when the alloc
\* was served, and with count 0 and next 0 when the alloc found no room
C13_RaceEndsWithServed ==
    /\ CountersAgree
    /\ DeallocRacedAlloc =>
          IF RacedAlloc.ret # NULL THEN allocations = 1 /\ next # 0
          ELSE allocations = 0 /\ next = 0

\* the alloc took the lock first and was served, the dealloc of the older
\* block followed while a second thread was involved
C13_Witness ==
    /\ DeallocRacedAlloc
    /\ bprev.kind = "alloc" /\ bprev.ret # NULL
    /\ allocations = 1 /\ next # 0

\* ---- the counter race of the lock-free bump allocator (LfSpec) ----

\* the byte ranges in use: blocks held by callers, blocks whose release has not
\* yet touched the count, and bytes reserved by an alloc that has not yet
\* counted them
LfRanges ==
    {[from |-> b.addr, to |-> b.addr + BumpSize(b.lay), who |-> <<"block", b.id, b.by>>] : b \in blive}
    \cup {[from |-> arg[t].addr, to |-> arg[t].addr + BumpSize(arg[t].lay),
           who |-> <<"release", t>>] : t \in {u \in Threads : pc[u] = "lf_sub"}}
    \cup {[from |-> loc[t].start, to |-> loc[t].start + BumpSize(arg[t]),
           who |-> <<"reserved", t>>] : t \in {u \in Threads : pc[u] = "lf_count"}}

\* no two ranges in use share a byte
LfDisjoint ==
    \A r1, r2 \in LfRanges : r1 # r2 => Disjoint(r1.from, r1.to, r2.from, r2.to)

\* every range in use lies below next, out of reach of later reservations
LfCovered == \A r \in LfRanges : r.to <= next

\* C14: a range in use comes back within reach of later reservations only by
\* a release storing 0 in next while the range is in use, and two ranges come
\* to overlap only by a reservation made after that; both happen (witness)
C14_ResetUncovers ==
    [][ /\ (LfCovered /\ ~LfCovered') =>
              \E t \in Threads : /\ pc[t] = "lf_reset" /\ pc'[t] = "idle"
                                 /\ next' = 0 /\ LfRanges # {}
        /\ (LfDisjoint /\ ~LfDisjoint') =>
              /\ ~LfCovered
              /\ \E t \in Threads : pc[t] = "lf_cas" /\ pc'[t] = "lf_count"
      ]_vars

\* a thread has reserved bytes and not yet counted them; the last release to
\* return found the count at one and stored 0 in next; the alloc that returned
\* after it was handed bytes of the reservation
C14_Witness ==
    \E t \in Threads :
        /\ pc[t] = "lf_count"
        /\ bprev.kind = "dealloc" /\ bprev.count1 = 0 /\ bprev.next1 = 0
        /\ bprev.next0 >= loc[t].start + BumpSize(arg[t])
        /\ blast.kind = "alloc" /\ blast.ret = 0
        /\ \E b \in blive :
              /\ b.addr = blast.ret
              /\ ~Disjoint(b.addr, b.addr + BumpSize(b.lay),
                           loc[t].start, loc[t].start + BumpSize(arg[t]))

\* ---- the split of the free-list allocator (Spec) ----

\* the list a call's search walks and the size of a node in it
SearchList == IF head.some THEN FreeList ELSE <<0>>
SearchSize(a) == IF head.some THEN mem[a].size ELSE SIZE

Without(s, a) == SelectSeq(s, LAMBDA x : x # a)

\* C15: an allocate that carves s bytes out of the node at a of size n returns
\* a; with n > s the list afterwards is one new node of size n - s at byte
\* address a + s, at the head, followed by the other nodes; with n = s it is
\* the other nodes alone
C15_SplitAtTail ==
    [][ (AllocStep /\ lastOp'.ret # NULL) =>
           LET a == lastOp'.ret
               s == lastOp'.size
               n == SearchSize(a)
           IN  IF n > s
               THEN /\ FreeList' = <<a + s>> \o Without(SearchList, a)
                    /\ mem'[a + s].size = n - s
               ELSE FreeList' = Without(SearchList, a)
      ]_vars

\* ---- find_region on the lists the allocator builds (Spec) ----

\* the effective sizes of the requests
EffSizes == {alloc_size(layout) : layout \in Layouts}

\* the positions of the list whose node is eligible for s
EligibleIn(list, s) == {i \in 1..Len(list) : Eligible(mem[list[i]].size, s)}
EligibleAt(s) == EligibleIn(FreeList, s)

DropAt(s, k) == [i \in 1..(Len(s) - 1) |-> IF i < k THEN s[i] ELSE s[i + 1]]

\* C16: on every list the allocator builds and for every effective size s,
\* find_region(s) returns the first node in list order with n >= s and
\* n - s = 0 or n - s >= min node size, never the sentinel; the list it leaves
\* is the old one without that node, the other nodes in their order and with
\* their sizes; it returns None exactly when no node is eligible, and then
\* leaves the list as it was
C16_FirstFit ==
    (head.some /\ fault = "none") =>
        \A s \in EffSizes :
            LET list == FreeList
                eligible == EligibleIn(list, s)
                found == find_region(head, mem, s)
                after == Walk(found.mem, found.head.next, Cardinality(DOMAIN mem) + 1)
            IN  /\ found.ret # HEAD
                /\ (found.ret = NULL) <=> (eligible = {})
                /\ found.ret = NULL => found.head = head /\ found.mem = mem
                /\ found.ret # NULL =>
                      LET k == CHOOSE i \in eligible : \A j \in eligible : i <= j
                      IN  /\ found.ret = list[k]
                          /\ after = DropAt(list, k)
                          /\ \A i \in 1..Len(after) :
                                 found.mem[after[i]].size = mem[after[i]].size

\* a list of three nodes on which the search for some size passes over the
\* first node and takes the second, leaving a node behind it
C16_Witness ==
    /\ head.some /\ fault = "none"
    /\ Len(FreeList) >= 3
    /\ \E s \in EffSizes :
          /\ EligibleAt(s) # {} /\ 1 \notin EligibleAt(s)
          /\ find_region(head, mem, s).ret = FreeList[2]

\* ---- node sizes and the assertions of add_free_region (Spec) ----

\* C17: in an arena of at least one node's size every node of the list has
\* size >= min node size, no call has failed an assertion of add_free_region,
\* and the size a release of a live block recomputes is >= min node size
C17_NodesHoldMetadata ==
    SIZE >= NodeSize =>
        /\ LET list == FreeList
           IN  \A i \in 1..Len(list) : mem[list[i]].size >= NodeSize
        /\ fault # "panic"
        /\ \A b \in live : /\ alloc_size(b.lay) >= NodeSize
                           /\ FreeRegionAsserts(b.addr, alloc_size(b.lay))

\* an allocate has split a node and a release has linked its block back in
C17_Witness ==
    /\ SIZE >= NodeSize /\ fault = "none"
    /\ prevOp.kind = "alloc" /\ prevOp.ret # NULL /\ prevOp.free > prevOp.size
    /\ lastOp.kind = "dealloc" /\ lastOp.addr = prevOp.ret
    /\ free_list_length >= 2

\* ---- the lifecycle of the free-list allocator (Spec) ----

\* a call made on the instance, whatever its outcome short of a crash
CallStep == nOps' = nOps + 1 /\ fault' # "segv"

\* the first call's initialization seen from its return: a call that found no
\* node left the sentinel and the single node of the whole arena; a call that
\* was served took its block from that node
InitializedBySearch ==
    IF lastOp'.ret = NULL
    THEN FreeList' = <<0>> /\ mem'[0].size = SIZE
    ELSE lastOp'.ret = 0 /\ free_space' + lastOp'.size = SIZE

\* C18: a new instance has no head and a list of length 0; the call made with
\* no head, which is the first one, sets the head and the single node of size
\* SIZE at offset 0 and searches that list; a head once present stays, and a
\* later call that finds nothing leaves the list as it is instead of
\* initializing again
C18_Lifecycle ==
    /\ ~head.some /\ free_list_length = 0
    /\ [][ /\ ~head.some => nOps = 0 /\ free_list_length = 0
           /\ (~head.some /\ CallStep) =>
                 /\ head'.some
                 /\ InitializedBySearch
           /\ head.some => head'.some
           /\ (head.some /\ CallStep /\ lastOp'.kind = "alloc" /\ lastOp'.ret = NULL) =>
                 FreeList' = FreeList
         ]_vars

\* ---- the free list against the live blocks (Spec) ----

\* the end of the byte range [a, a + size) of the node at address a
NodeEnd(a) == a + mem[a].size

\* C19: while the process runs, the node addresses of the list are pairwise
\* distinct, so that a walk from the head ends, and the byte range of a free
\* node shares no byte with another free node's range or with a live block
C19_FreeNotHandedOut ==
    fault # "segv" =>
        LET list == FreeList
            nodes == {list[i] : i \in 1..Len(list)}
        IN  /\ Cardinality(nodes) = Len(list)
            /\ Len(list) <= Cardinality(DOMAIN mem)
            /\ \A a1, a2 \in nodes :
                   a1 # a2 => Disjoint(a1, NodeEnd(a1), a2, NodeEnd(a2))
            /\ \A a \in nodes : \A b \in live :
                   Disjoint(a, NodeEnd(a), b.addr, BlockEnd(b))

\* after a release the list holds a released block and a remainder while
\* other blocks are live
C19_Witness ==
    /\ fault = "none"
    /\ lastOp.kind = "dealloc"
    /\ free_list_length >= 3
    /\ Cardinality(live) >= 2

\* ---- alignment of the bump allocator's blocks (BumpSpec) ----

\* C20: every block handed out starts at an arena offset that is a multiple
\* of the alignment requested for it
C20_BumpAligned ==
    \A b \in blive : b.addr % b.lay.align = 0

====
